---- MODULE Spec2Model ----
(***************************************************************************)
(* The serp-market currencies pallet (src/src/lib.rs): a router that       *)
(* presents one multi-currency interface and forwards every call either to *)
(* the native adapter (Stp258AssetAdapter over a frame_support Currency)   *)
(* or to the multi-currency backend (Config::Stp258Currency).              *)
(*                                                                         *)
(* The two ledgers behind the router are not part of src/: they are        *)
(* modelled from the interface contract the specification gives for them   *)
(* (sections 3, 4.3 and 6) and are the definitions named Cur_... (the      *)
(* native single-asset primitive) and Tok_... (the multi-asset primitive). *)
(* Everything named Adapter_..., Router_... and Pallet_... is translated   *)
(* from src/src/lib.rs.                                                    *)
(***************************************************************************)
EXTENDS Integers, Sequences, FiniteSets, TLC

\* ------------------------------------------------------------------ bounds
\* Largest total issuance the model lets the native ledger reach.
MaxNativeIssuance == 4
\* Largest total issuance the model lets a multi-asset ledger reach.
MaxTokenIssuance == 1
\* Largest amount passed to an operation.
MaxAmount == 3

\* ------------------------------------------------------- configuration
\* Config::GetStp258NativeId: the currency id of the native asset.
NativeId == 0
\* The currency ids of the model: the native one and one other.
CurrencyIds == {0, 1}
NonNativeIds == CurrencyIds \ {NativeId}
\* The accounts of the model.
Accounts == {"A", "B"}
\* Dispatch origins: a signed account, or an origin ensure_signed rejects.
Origins == Accounts \cup {"Root"}
Amounts == 0 .. MaxAmount
BalanceStatuses == {"Free", "Reserved"}
\* The native primitive's minimum_balance() (its existential deposit).
ExistentialDeposit == 2
\* Stp258Currency::base_unit and ::minimum_balance of the multi-asset backend.
Tok_base_unit(c) == 1
Tok_minimum_balance(c) == 0

\* ------------------------------------------------------------- results
\* Ok(v) / Err(e) of a DispatchResult or Result<Balance, DispatchError>; a plain
\* Balance or bool return is Ok(v): such an operation has no error to return.
Ok(v) == [ok |-> TRUE, val |-> v, err |-> "none"]
OkUnit == [ok |-> TRUE, val |-> 0, err |-> "none"]
Err(e) == [ok |-> FALSE, val |-> 0, err |-> e]
Min(a, b) == IF a <= b THEN a ELSE b
\* A record of one call into a backend: the trait object and the method.
Called(backend, op) == [backend |-> backend, op |-> op]

\* ------------------------------------------------------------- ledgers
\* One ledger: per-account free and reserved balance, and the total issuance.
ZeroAccount == [free |-> 0, reserved |-> 0]
EmptyLedger == [acc |-> [a \in Accounts |-> ZeroAccount], issuance |-> 0]
Total(s, who) == s.acc[who].free + s.acc[who].reserved
SetFree(s, who, v) == [s EXCEPT !.acc[who].free = v]
SetReserved(s, who, v) == [s EXCEPT !.acc[who].reserved = v]

\* ------------------------------------------- native primitive (Currency)
\* An account of the native primitive exists while it holds a balance.
Cur_is_new(s, who) == Total(s, who) = 0
\* After a mutation an account left with less than the existential deposit is
\* removed and what it held is taken out of the issuance.
Cur_post_mutation(s, who) ==
    IF Total(s, who) < ExistentialDeposit
    THEN [acc |-> [s.acc EXCEPT ![who] = ZeroAccount],
          issuance |-> s.issuance - Total(s, who)]
    ELSE s
\* Dropping an imbalance settles it against the total issuance.
DropPositive(s, amount) == [s EXCEPT !.issuance = @ + amount]
DropNegative(s, amount) == [s EXCEPT !.issuance = @ - amount]

Cur_minimum_balance == ExistentialDeposit
Cur_total_issuance(s) == s.issuance
Cur_total_balance(s, who) == Total(s, who)
Cur_free_balance(s, who) == s.acc[who].free
Cur_reserved_balance(s, who) == s.acc[who].reserved

\* ensure_can_withdraw(who, amount, reasons, new_balance): the model's ledger
\* holds no locks, so the primitive's own check passes.
Cur_ensure_can_withdraw(s, who, amount, new_balance) == OkUnit

\* transfer(from, to, value, AllowDeath)
Cur_transfer(s, from, to, value) ==
    IF value = 0 \/ from = to THEN [ret |-> OkUnit, st |-> s]
    ELSE IF s.acc[from].free < value
    THEN [ret |-> Err("Balances.InsufficientBalance"), st |-> s]
    ELSE IF Total(s, to) + value < ExistentialDeposit
    THEN [ret |-> Err("Balances.ExistentialDeposit"), st |-> s]
    ELSE LET s1 == SetFree(s, from, s.acc[from].free - value)
             s2 == SetFree(s1, to, s1.acc[to].free + value)
         IN [ret |-> OkUnit, st |-> Cur_post_mutation(s2, from)]

\* deposit_creating(who, value) -> PositiveImbalance
Cur_deposit_creating(s, who, value) ==
    IF value = 0 THEN [imb |-> 0, st |-> s]
    ELSE IF Cur_is_new(s, who) /\ value < ExistentialDeposit
    THEN [imb |-> 0, st |-> s]
    ELSE [imb |-> value, st |-> SetFree(s, who, s.acc[who].free + value)]

\* withdraw(who, value, reasons, AllowDeath) -> Result<NegativeImbalance, _>
Cur_withdraw(s, who, value) ==
    IF value = 0 THEN [ret |-> OkUnit, imb |-> 0, st |-> s]
    ELSE IF s.acc[who].free < value
    THEN [ret |-> Err("Balances.InsufficientBalance"), imb |-> 0, st |-> s]
    ELSE [ret |-> OkUnit, imb |-> value,
          st |-> Cur_post_mutation(SetFree(s, who, s.acc[who].free - value), who)]

Cur_can_slash(s, who, value) == value = 0 \/ s.acc[who].free >= value

\* slash(who, value) -> (NegativeImbalance, Balance): free first, then reserved
Cur_slash(s, who, value) ==
    LET free_slash == Min(s.acc[who].free, value)
        reserved_slash == Min(s.acc[who].reserved, value - free_slash)
        s1 == SetFree(s, who, s.acc[who].free - free_slash)
        s2 == SetReserved(s1, who, s1.acc[who].reserved - reserved_slash)
    IN [credit |-> free_slash + reserved_slash,
        gap |-> value - free_slash - reserved_slash,
        st |-> Cur_post_mutation(s2, who)]

Cur_can_reserve(s, who, value) == value = 0 \/ s.acc[who].free >= value

\* slash_reserved(who, value) -> (NegativeImbalance, Balance)
Cur_slash_reserved(s, who, value) ==
    LET actual == Min(s.acc[who].reserved, value)
    IN [credit |-> actual, gap |-> value - actual,
        st |-> Cur_post_mutation(SetReserved(s, who, s.acc[who].reserved - actual), who)]

Cur_reserve(s, who, value) ==
    IF value = 0 THEN [ret |-> OkUnit, st |-> s]
    ELSE IF s.acc[who].free < value
    THEN [ret |-> Err("Balances.InsufficientBalance"), st |-> s]
    ELSE [ret |-> OkUnit,
          st |-> SetReserved(SetFree(s, who, s.acc[who].free - value),
                             who, s.acc[who].reserved + value)]

Cur_unreserve(s, who, value) ==
    LET actual == Min(s.acc[who].reserved, value)
    IN [ret |-> Ok(value - actual),
        st |-> SetFree(SetReserved(s, who, s.acc[who].reserved - actual),
                       who, s.acc[who].free + actual)]

\* repatriate_reserved(slashed, beneficiary, value, status): the beneficiary
\* must exist; insufficient reserved funds are reported as the shortfall.
Cur_repatriate_reserved(s, slashed, beneficiary, value, status) ==
    IF value = 0 THEN [ret |-> Ok(0), st |-> s]
    ELSE IF slashed = beneficiary
    THEN IF status = "Free" THEN Cur_unreserve(s, slashed, value)
         ELSE [ret |-> Ok(value - Min(s.acc[slashed].reserved, value)), st |-> s]
    ELSE IF Cur_is_new(s, beneficiary)
    THEN [ret |-> Err("Balances.DeadAccount"), st |-> s]
    ELSE LET actual == Min(s.acc[slashed].reserved, value)
             s1 == IF status = "Free"
                   THEN SetFree(s, beneficiary, s.acc[beneficiary].free + actual)
                   ELSE SetReserved(s, beneficiary, s.acc[beneficiary].reserved + actual)
             s2 == SetReserved(s1, slashed, s1.acc[slashed].reserved - actual)
         IN [ret |-> Ok(value - actual), st |-> Cur_post_mutation(s2, slashed)]

\* ------------------------------- multi-asset primitive (Stp258Currency)
\* The operations take and return the ledger of the currency they are called
\* with; this backend keeps no existence rule (its minimum balance is 0).
Tok_total_issuance(s) == s.issuance
Tok_total_balance(s, who) == Total(s, who)
Tok_free_balance(s, who) == s.acc[who].free
Tok_reserved_balance(s, who) == s.acc[who].reserved

Tok_ensure_can_withdraw(s, who, amount) ==
    IF amount = 0 THEN OkUnit
    ELSE IF s.acc[who].free < amount THEN Err("Tokens.BalanceTooLow")
    ELSE OkUnit

Tok_transfer(s, from, to, amount) ==
    IF amount = 0 \/ from = to THEN [ret |-> OkUnit, st |-> s]
    ELSE IF ~Tok_ensure_can_withdraw(s, from, amount).ok
    THEN [ret |-> Tok_ensure_can_withdraw(s, from, amount), st |-> s]
    ELSE LET s1 == SetFree(s, from, s.acc[from].free - amount)
         IN [ret |-> OkUnit, st |-> SetFree(s1, to, s1.acc[to].free + amount)]

Tok_deposit(s, who, amount) ==
    IF amount = 0 THEN [ret |-> OkUnit, st |-> s]
    ELSE [ret |-> OkUnit,
          st |-> DropPositive(SetFree(s, who, s.acc[who].free + amount), amount)]

Tok_withdraw(s, who, amount) ==
    IF amount = 0 THEN [ret |-> OkUnit, st |-> s]
    ELSE IF ~Tok_ensure_can_withdraw(s, who, amount).ok
    THEN [ret |-> Tok_ensure_can_withdraw(s, who, amount), st |-> s]
    ELSE [ret |-> OkUnit,
          st |-> DropNegative(SetFree(s, who, s.acc[who].free - amount), amount)]

Tok_can_slash(s, who, value) == value = 0 \/ s.acc[who].free >= value

\* slash(currency_id, who, amount) -> Balance: the shortfall, free first
Tok_slash(s, who, amount) ==
    LET free_slashed == Min(s.acc[who].free, amount)
        reserved_slashed == Min(s.acc[who].reserved, amount - free_slashed)
        s1 == SetFree(s, who, s.acc[who].free - free_slashed)
        s2 == SetReserved(s1, who, s1.acc[who].reserved - reserved_slashed)
    IN [ret |-> Ok(amount - free_slashed - reserved_slashed),
        st |-> DropNegative(s2, free_slashed + reserved_slashed)]

Tok_can_reserve(s, who, value) ==
    value = 0 \/ Tok_ensure_can_withdraw(s, who, value).ok

Tok_slash_reserved(s, who, value) ==
    LET actual == Min(s.acc[who].reserved, value)
    IN [ret |-> Ok(value - actual),
        st |-> DropNegative(SetReserved(s, who, s.acc[who].reserved - actual), actual)]

Tok_reserve(s, who, value) ==
    IF value = 0 THEN [ret |-> OkUnit, st |-> s]
    ELSE IF ~Tok_ensure_can_withdraw(s, who, value).ok
    THEN [ret |-> Tok_ensure_can_withdraw(s, who, value), st |-> s]
    ELSE [ret |-> OkUnit,
          st |-> SetReserved(SetFree(s, who, s.acc[who].free - value),
                             who, s.acc[who].reserved + value)]

Tok_unreserve(s, who, value) ==
    LET actual == Min(s.acc[who].reserved, value)
    IN [ret |-> Ok(value - actual),
        st |-> SetFree(SetReserved(s, who, s.acc[who].reserved - actual),
                       who, s.acc[who].free + actual)]

Tok_repatriate_reserved(s, slashed, beneficiary, value, status) ==
    IF value = 0 THEN [ret |-> Ok(0), st |-> s]
    ELSE IF slashed = beneficiary
    THEN IF status = "Free" THEN Tok_unreserve(s, slashed, value)
         ELSE [ret |-> Ok(value - Min(s.acc[slashed].reserved, value)), st |-> s]
    ELSE LET actual == Min(s.acc[slashed].reserved, value)
             s1 == IF status = "Free"
                   THEN SetFree(s, beneficiary, s.acc[beneficiary].free + actual)
                   ELSE SetReserved(s, beneficiary, s.acc[beneficiary].reserved + actual)
         IN [ret |-> Ok(value - actual),
             st |-> SetReserved(s1, slashed, s1.acc[slashed].reserved - actual)]

\* ------------------------------------- native adapter (Stp258AssetAdapter)
\* Every operation takes the native ledger and returns its result, the ledger
\* after it, and the primitive calls it made.
Adapter_minimum_balance(s) ==
    [ret |-> Ok(Cur_minimum_balance), st |-> s, calls |-> <<Called("Currency", "minimum_balance")>>]

Adapter_total_issuance(s) ==
    [ret |-> Ok(Cur_total_issuance(s)), st |-> s, calls |-> <<Called("Currency", "total_issuance")>>]

Adapter_total_balance(s, who) ==
    [ret |-> Ok(Cur_total_balance(s, who)), st |-> s, calls |-> <<Called("Currency", "total_balance")>>]

Adapter_free_balance(s, who) ==
    [ret |-> Ok(Cur_free_balance(s, who)), st |-> s, calls |-> <<Called("Currency", "free_balance")>>]

\* free_balance(who).checked_sub(&amount).ok_or(BalanceTooLow)?, then the
\* primitive's own check with the resulting balance
Adapter_ensure_can_withdraw(s, who, amount) ==
    IF Cur_free_balance(s, who) < amount
    THEN [ret |-> Err("BalanceTooLow"), st |-> s, calls |-> <<Called("Currency", "free_balance")>>]
    ELSE [ret |-> Cur_ensure_can_withdraw(s, who, amount, Cur_free_balance(s, who) - amount),
          st |-> s,
          calls |-> <<Called("Currency", "free_balance"), Called("Currency", "ensure_can_withdraw")>>]

Adapter_transfer(s, from, to, amount) ==
    LET r == Cur_transfer(s, from, to, amount)
    IN [ret |-> r.ret, st |-> r.st, calls |-> <<Called("Currency", "transfer")>>]

\* let _ = Currency::deposit_creating(who, amount); Ok(())
Adapter_deposit(s, who, amount) ==
    LET r == Cur_deposit_creating(s, who, amount)
    IN [ret |-> OkUnit, st |-> DropPositive(r.st, r.imb),
        calls |-> <<Called("Currency", "deposit_creating")>>]

\* Mutant of Adapter_withdraw: the adapter runs its own ensure_can_withdraw
\* before it calls the primitive.
Adapter_withdraw_EnsureFirst(s, who, amount) ==
    LET e == Adapter_ensure_can_withdraw(s, who, amount)
        r == Cur_withdraw(s, who, amount)
    IN IF ~e.ret.ok THEN e
       ELSE [ret |-> r.ret, st |-> DropNegative(r.st, r.imb),
             calls |-> e.calls \o <<Called("Currency", "withdraw")>>]

\* Currency::withdraw(who, amount, all, AllowDeath).map(|_| ())
Adapter_withdraw(s, who, amount) ==
    LET r == Cur_withdraw(s, who, amount)
    IN [ret |-> r.ret, st |-> DropNegative(r.st, r.imb),
        calls |-> <<Called("Currency", "withdraw")>>]

Adapter_can_slash(s, who, amount) ==
    [ret |-> Ok(Cur_can_slash(s, who, amount)), st |-> s, calls |-> <<Called("Currency", "can_slash")>>]

\* Mutant of Adapter_slash: the adapter returns the amount of the credit
\* instead of the gap.
Adapter_slash_ReturnsCredit(s, who, amount) ==
    LET r == Cur_slash(s, who, amount)
    IN [ret |-> Ok(r.credit), st |-> DropNegative(r.st, r.credit),
        calls |-> <<Called("Currency", "slash")>>]

\* let (_, gap) = Currency::slash(who, amount); gap
Adapter_slash(s, who, amount) ==
    LET r == Cur_slash(s, who, amount)
    IN [ret |-> Ok(r.gap), st |-> DropNegative(r.st, r.credit),
        calls |-> <<Called("Currency", "slash")>>]

Adapter_can_reserve(s, who, value) ==
    [ret |-> Ok(Cur_can_reserve(s, who, value)), st |-> s, calls |-> <<Called("Currency", "can_reserve")>>]

\* let (_, gap) = Currency::slash_reserved(who, value); gap
Adapter_slash_reserved(s, who, value) ==
    LET r == Cur_slash_reserved(s, who, value)
    IN [ret |-> Ok(r.gap), st |-> DropNegative(r.st, r.credit),
        calls |-> <<Called("Currency", "slash_reserved")>>]

Adapter_reserved_balance(s, who) ==
    [ret |-> Ok(Cur_reserved_balance(s, who)), st |-> s,
     calls |-> <<Called("Currency", "reserved_balance")>>]

Adapter_reserve(s, who, value) ==
    LET r == Cur_reserve(s, who, value)
    IN [ret |-> r.ret, st |-> r.st, calls |-> <<Called("Currency", "reserve")>>]

Adapter_unreserve(s, who, value) ==
    LET r == Cur_unreserve(s, who, value)
    IN [ret |-> r.ret, st |-> r.st, calls |-> <<Called("Currency", "unreserve")>>]

Adapter_repatriate_reserved(s, slashed, beneficiary, value, status) ==
    LET r == Cur_repatriate_reserved(s, slashed, beneficiary, value, status)
    IN [ret |-> r.ret, st |-> r.st, calls |-> <<Called("Currency", "repatriate_reserved")>>]

\* --------------------------------------------- router (impl for Pallet<T>)
\* Every router operation takes the native ledger n and the multi-asset
\* ledgers t and returns its result, both ledgers after it, the events it
\* deposited and the backend calls it made.
Transferred(c, from, to, amount) == <<"Transferred", c, from, to, amount>>
Deposited(c, who, amount) == <<"Deposited", c, who, amount>>
Withdrawn(c, who, amount) == <<"Withdrawn", c, who, amount>>

\* The call went to T::Stp258Native and returned r.
ViaNative(n, t, r, name, ev) ==
    [ret |-> r.ret, native |-> r.st, tokens |-> t, events |-> ev,
     calls |-> <<name>> \o r.calls]
\* The call went to T::Stp258Currency with currency c and returned r.
ViaTokens(n, t, c, r, name, ev) ==
    [ret |-> r.ret, native |-> n, tokens |-> [t EXCEPT ![c] = r.st], events |-> ev,
     calls |-> <<name>>]
\* A read of T::Stp258Currency returning v.
ReadTokens(n, t, v, name) ==
    [ret |-> Ok(v), native |-> n, tokens |-> t, events |-> <<>>, calls |-> <<name>>]
\* An early return: no backend is called.
NoCall(n, t, ret) ==
    [ret |-> ret, native |-> n, tokens |-> t, events |-> <<>>, calls |-> <<>>]

Router_base_unit(n, t, c) ==
    IF c = NativeId
    THEN ViaNative(n, t, Adapter_minimum_balance(n), Called("Stp258Native", "minimum_balance"), <<>>)
    ELSE ReadTokens(n, t, Tok_base_unit(c), Called("Stp258Currency", "base_unit"))

Router_minimum_balance(n, t, c) ==
    IF c = NativeId
    THEN ViaNative(n, t, Adapter_minimum_balance(n), Called("Stp258Native", "minimum_balance"), <<>>)
    ELSE ReadTokens(n, t, Tok_minimum_balance(c), Called("Stp258Currency", "minimum_balance"))

\* Mutant of Router_total_issuance: the currency id is not compared with the
\* native id and every call goes to the native adapter.
Router_total_issuance_AlwaysNative(n, t, c) ==
    ViaNative(n, t, Adapter_total_issuance(n), Called("Stp258Native", "total_issuance"), <<>>)

Router_total_issuance(n, t, c) ==
    IF c = NativeId
    THEN ViaNative(n, t, Adapter_total_issuance(n), Called("Stp258Native", "total_issuance"), <<>>)
    ELSE ReadTokens(n, t, Tok_total_issuance(t[c]), Called("Stp258Currency", "total_issuance"))

\* Mutant of Router_total_balance: it forwards to free_balance.
Router_total_balance_AsFree(n, t, c, who) ==
    IF c = NativeId
    THEN ViaNative(n, t, Adapter_free_balance(n, who), Called("Stp258Native", "free_balance"), <<>>)
    ELSE ReadTokens(n, t, Tok_free_balance(t[c], who), Called("Stp258Currency", "free_balance"))

Router_total_balance(n, t, c, who) ==
    IF c = NativeId
    THEN ViaNative(n, t, Adapter_total_balance(n, who), Called("Stp258Native", "total_balance"), <<>>)
    ELSE ReadTokens(n, t, Tok_total_balance(t[c], who), Called("Stp258Currency", "total_balance"))

Router_free_balance(n, t, c, who) ==
    IF c = NativeId
    THEN ViaNative(n, t, Adapter_free_balance(n, who), Called("Stp258Native", "free_balance"), <<>>)
    ELSE ReadTokens(n, t, Tok_free_balance(t[c], who), Called("Stp258Currency", "free_balance"))

Router_ensure_can_withdraw(n, t, c, who, amount) ==
    IF c = NativeId
    THEN ViaNative(n, t, Adapter_ensure_can_withdraw(n, who, amount),
                   Called("Stp258Native", "ensure_can_withdraw"), <<>>)
    ELSE [ret |-> Tok_ensure_can_withdraw(t[c], who, amount), native |-> n, tokens |-> t,
          events |-> <<>>, calls |-> <<Called("Stp258Currency", "ensure_can_withdraw")>>]

\* Mutant of Router_transfer: the early return tests the amount only.
Router_transfer_NoSelfCheck(n, t, c, from, to, amount) ==
    IF amount = 0 THEN NoCall(n, t, OkUnit)
    ELSE IF c = NativeId
    THEN LET r == Adapter_transfer(n, from, to, amount)
         IN ViaNative(n, t, r, Called("Stp258Native", "transfer"),
                      IF r.ret.ok THEN <<Transferred(c, from, to, amount)>> ELSE <<>>)
    ELSE LET r == Tok_transfer(t[c], from, to, amount)
         IN ViaTokens(n, t, c, r, Called("Stp258Currency", "transfer"),
                      IF r.ret.ok THEN <<Transferred(c, from, to, amount)>> ELSE <<>>)

Router_transfer(n, t, c, from, to, amount) ==
    IF amount = 0 \/ from = to THEN NoCall(n, t, OkUnit)
    ELSE IF c = NativeId
    THEN LET r == Adapter_transfer(n, from, to, amount)
         IN ViaNative(n, t, r, Called("Stp258Native", "transfer"),
                      IF r.ret.ok THEN <<Transferred(c, from, to, amount)>> ELSE <<>>)
    ELSE LET r == Tok_transfer(t[c], from, to, amount)
         IN ViaTokens(n, t, c, r, Called("Stp258Currency", "transfer"),
                      IF r.ret.ok THEN <<Transferred(c, from, to, amount)>> ELSE <<>>)

Router_deposit(n, t, c, who, amount) ==
    IF amount = 0 THEN NoCall(n, t, OkUnit)
    ELSE IF c = NativeId
    THEN LET r == Adapter_deposit(n, who, amount)
         IN ViaNative(n, t, r, Called("Stp258Native", "deposit"),
                      IF r.ret.ok THEN <<Deposited(c, who, amount)>> ELSE <<>>)
    ELSE LET r == Tok_deposit(t[c], who, amount)
         IN ViaTokens(n, t, c, r, Called("Stp258Currency", "deposit"),
                      IF r.ret.ok THEN <<Deposited(c, who, amount)>> ELSE <<>>)

\* Mutant of Router_withdraw: the event is deposited whatever the backend
\* returned.
Router_withdraw_EventAlways(n, t, c, who, amount) ==
    IF amount = 0 THEN NoCall(n, t, OkUnit)
    ELSE IF c = NativeId
    THEN ViaNative(n, t, Adapter_withdraw(n, who, amount), Called("Stp258Native", "withdraw"),
                   <<Withdrawn(c, who, amount)>>)
    ELSE ViaTokens(n, t, c, Tok_withdraw(t[c], who, amount),
                   Called("Stp258Currency", "withdraw"), <<Withdrawn(c, who, amount)>>)

Router_withdraw(n, t, c, who, amount) ==
    IF amount = 0 THEN NoCall(n, t, OkUnit)
    ELSE IF c = NativeId
    THEN LET r == Adapter_withdraw(n, who, amount)
         IN ViaNative(n, t, r, Called("Stp258Native", "withdraw"),
                      IF r.ret.ok THEN <<Withdrawn(c, who, amount)>> ELSE <<>>)
    ELSE LET r == Tok_withdraw(t[c], who, amount)
         IN ViaTokens(n, t, c, r, Called("Stp258Currency", "withdraw"),
                      IF r.ret.ok THEN <<Withdrawn(c, who, amount)>> ELSE <<>>)

Router_can_slash(n, t, c, who, amount) ==
    IF c = NativeId
    THEN ViaNative(n, t, Adapter_can_slash(n, who, amount), Called("Stp258Native", "can_slash"), <<>>)
    ELSE ReadTokens(n, t, Tok_can_slash(t[c], who, amount), Called("Stp258Currency", "can_slash"))

Router_slash(n, t, c, who, amount) ==
    IF c = NativeId
    THEN ViaNative(n, t, Adapter_slash(n, who, amount), Called("Stp258Native", "slash"), <<>>)
    ELSE ViaTokens(n, t, c, Tok_slash(t[c], who, amount), Called("Stp258Currency", "slash"), <<>>)

Router_can_reserve(n, t, c, who, value) ==
    IF c = NativeId
    THEN ViaNative(n, t, Adapter_can_reserve(n, who, value), Called("Stp258Native", "can_reserve"), <<>>)
    ELSE ReadTokens(n, t, Tok_can_reserve(t[c], who, value), Called("Stp258Currency", "can_reserve"))

Router_slash_reserved(n, t, c, who, value) ==
    IF c = NativeId
    THEN ViaNative(n, t, Adapter_slash_reserved(n, who, value),
                   Called("Stp258Native", "slash_reserved"), <<>>)
    ELSE ViaTokens(n, t, c, Tok_slash_reserved(t[c], who, value),
                   Called("Stp258Currency", "slash_reserved"), <<>>)

Router_reserved_balance(n, t, c, who) ==
    IF c = NativeId
    THEN ViaNative(n, t, Adapter_reserved_balance(n, who),
                   Called("Stp258Native", "reserved_balance"), <<>>)
    ELSE ReadTokens(n, t, Tok_reserved_balance(t[c], who),
                    Called("Stp258Currency", "reserved_balance"))

Router_reserve(n, t, c, who, value) ==
    IF c = NativeId
    THEN ViaNative(n, t, Adapter_reserve(n, who, value), Called("Stp258Native", "reserve"), <<>>)
    ELSE ViaTokens(n, t, c, Tok_reserve(t[c], who, value), Called("Stp258Currency", "reserve"), <<>>)

\* Mutant of Router_unreserve: it forwards to slash_reserved.
Router_unreserve_AsSlashReserved(n, t, c, who, value) ==
    IF c = NativeId
    THEN ViaNative(n, t, Adapter_slash_reserved(n, who, value),
                   Called("Stp258Native", "slash_reserved"), <<>>)
    ELSE ViaTokens(n, t, c, Tok_slash_reserved(t[c], who, value),
                   Called("Stp258Currency", "slash_reserved"), <<>>)

Router_unreserve(n, t, c, who, value) ==
    IF c = NativeId
    THEN ViaNative(n, t, Adapter_unreserve(n, who, value), Called("Stp258Native", "unreserve"), <<>>)
    ELSE ViaTokens(n, t, c, Tok_unreserve(t[c], who, value),
                   Called("Stp258Currency", "unreserve"), <<>>)

\* Mutant of Router_repatriate_reserved: slashed and beneficiary are passed
\* on in the wrong order.
Router_repatriate_reserved_Swapped(n, t, c, slashed, beneficiary, value, status) ==
    IF c = NativeId
    THEN ViaNative(n, t, Adapter_repatriate_reserved(n, beneficiary, slashed, value, status),
                   Called("Stp258Native", "repatriate_reserved"), <<>>)
    ELSE ViaTokens(n, t, c, Tok_repatriate_reserved(t[c], beneficiary, slashed, value, status),
                   Called("Stp258Currency", "repatriate_reserved"), <<>>)

Router_repatriate_reserved(n, t, c, slashed, beneficiary, value, status) ==
    IF c = NativeId
    THEN ViaNative(n, t, Adapter_repatriate_reserved(n, slashed, beneficiary, value, status),
                   Called("Stp258Native", "repatriate_reserved"), <<>>)
    ELSE ViaTokens(n, t, c, Tok_repatriate_reserved(t[c], slashed, beneficiary, value, status),
                   Called("Stp258Currency", "repatriate_reserved"), <<>>)

\* ----------------------------------------------- dispatchable entry points
\* ensure_signed(origin)?; T::Lookup::lookup(dest)? (the identity lookup)
Pallet_transfer(n, t, origin, dest, c, amount) ==
    IF origin \notin Accounts THEN NoCall(n, t, Err("BadOrigin"))
    ELSE Router_transfer(n, t, c, origin, dest, amount)

\* T::Stp258Native::transfer(&from, &to, amount)?; then the event, always
Pallet_transfer_native_currency(n, t, origin, dest, amount) ==
    IF origin \notin Accounts THEN NoCall(n, t, Err("BadOrigin"))
    ELSE LET r == Adapter_transfer(n, origin, dest, amount)
         IN ViaNative(n, t, r, Called("Stp258Native", "transfer"),
                      IF r.ret.ok THEN <<Transferred(NativeId, origin, dest, amount)>>
                      ELSE <<>>)

\* ------------------------------------------------------------ the state
\* native: the native primitive's ledger; tokens: the multi-asset ledgers, one
\* per non-native currency id; events: the events the call in progress has
\* deposited; calls: the backend calls it made; last: that call, its
\* arguments and its result; pre: both ledgers as they were before it.
VARIABLES native, tokens, events, calls, last, pre

vars == <<native, tokens, events, calls, last, pre>>

\* No call in progress.
Idle == [op |-> "none", cid |-> NativeId, who |-> "A", to |-> "A", amount |-> 0,
         status |-> "Free", ret |-> OkUnit]
MkCall(op, c, who, to, amount, status) ==
    [op |-> op, cid |-> c, who |-> who, to |-> to, amount |-> amount,
     status |-> status, ret |-> OkUnit]

Init ==
    /\ native = EmptyLedger
    /\ tokens = [c \in NonNativeIds |-> EmptyLedger]
    /\ events = <<>>
    /\ calls = <<>>
    /\ last = Idle
    /\ pre = [native |-> EmptyLedger, tokens |-> [c \in NonNativeIds |-> EmptyLedger]]

\* One call, run to completion with outcome o.
Do(call, o) ==
    /\ last.op = "none"
    /\ o.native.issuance <= MaxNativeIssuance
    /\ \A c \in NonNativeIds : o.tokens[c].issuance <= MaxTokenIssuance
    /\ pre' = [native |-> native, tokens |-> tokens]
    /\ native' = o.native
    /\ tokens' = o.tokens
    /\ events' = o.events
    /\ calls' = o.calls
    /\ last' = [call EXCEPT !.ret = o.ret]

BaseUnit ==
    \E c \in CurrencyIds :
        Do(MkCall("base_unit", c, "A", "A", 0, "Free"), Router_base_unit(native, tokens, c))

MinimumBalance ==
    \E c \in CurrencyIds :
        Do(MkCall("minimum_balance", c, "A", "A", 0, "Free"),
           Router_minimum_balance(native, tokens, c))

TotalIssuance ==
    \E c \in CurrencyIds :
        Do(MkCall("total_issuance", c, "A", "A", 0, "Free"),
           Router_total_issuance(native, tokens, c))

TotalBalance ==
    \E c \in CurrencyIds, who \in Accounts :
        Do(MkCall("total_balance", c, who, who, 0, "Free"),
           Router_total_balance(native, tokens, c, who))

FreeBalance ==
    \E c \in CurrencyIds, who \in Accounts :
        Do(MkCall("free_balance", c, who, who, 0, "Free"),
           Router_free_balance(native, tokens, c, who))

EnsureCanWithdraw ==
    \E c \in CurrencyIds, who \in Accounts, amount \in Amounts :
        Do(MkCall("ensure_can_withdraw", c, who, who, amount, "Free"),
           Router_ensure_can_withdraw(native, tokens, c, who, amount))

Transfer ==
    \E c \in CurrencyIds, from \in Accounts, to \in Accounts, amount \in Amounts :
        Do(MkCall("transfer", c, from, to, amount, "Free"),
           Router_transfer(native, tokens, c, from, to, amount))

Deposit ==
    \E c \in CurrencyIds, who \in Accounts, amount \in Amounts :
        Do(MkCall("deposit", c, who, who, amount, "Free"),
           Router_deposit(native, tokens, c, who, amount))

Withdraw ==
    \E c \in CurrencyIds, who \in Accounts, amount \in Amounts :
        Do(MkCall("withdraw", c, who, who, amount, "Free"),
           Router_withdraw(native, tokens, c, who, amount))

CanSlash ==
    \E c \in CurrencyIds, who \in Accounts, amount \in Amounts :
        Do(MkCall("can_slash", c, who, who, amount, "Free"),
           Router_can_slash(native, tokens, c, who, amount))

Slash ==
    \E c \in CurrencyIds, who \in Accounts, amount \in Amounts :
        Do(MkCall("slash", c, who, who, amount, "Free"),
           Router_slash(native, tokens, c, who, amount))

CanReserve ==
    \E c \in CurrencyIds, who \in Accounts, value \in Amounts :
        Do(MkCall("can_reserve", c, who, who, value, "Free"),
           Router_can_reserve(native, tokens, c, who, value))

SlashReserved ==
    \E c \in CurrencyIds, who \in Accounts, value \in Amounts :
        Do(MkCall("slash_reserved", c, who, who, value, "Free"),
           Router_slash_reserved(native, tokens, c, who, value))

ReservedBalance ==
    \E c \in CurrencyIds, who \in Accounts :
        Do(MkCall("reserved_balance", c, who, who, 0, "Free"),
           Router_reserved_balance(native, tokens, c, who))

Reserve ==
    \E c \in CurrencyIds, who \in Accounts, value \in Amounts :
        Do(MkCall("reserve", c, who, who, value, "Free"),
           Router_reserve(native, tokens, c, who, value))

Unreserve ==
    \E c \in CurrencyIds, who \in Accounts, value \in Amounts :
        Do(MkCall("unreserve", c, who, who, value, "Free"),
           Router_unreserve(native, tokens, c, who, value))

RepatriateReserved ==
    \E c \in CurrencyIds, slashed \in Accounts, beneficiary \in Accounts,
       value \in Amounts, status \in BalanceStatuses :
        Do(MkCall("repatriate_reserved", c, slashed, beneficiary, value, status),
           Router_repatriate_reserved(native, tokens, c, slashed, beneficiary, value, status))

\* The dispatchable transfer(origin, dest, currency_id, amount).
DispatchTransfer ==
    \E origin \in Origins, dest \in Accounts, c \in CurrencyIds, amount \in Amounts :
        Do(MkCall("call_transfer", c, origin, dest, amount, "Free"),
           Pallet_transfer(native, tokens, origin, dest, c, amount))

\* The dispatchable transfer_native_currency(origin, dest, amount).
DispatchTransferNativeCurrency ==
    \E origin \in Origins, dest \in Accounts, amount \in Amounts :
        Do(MkCall("call_transfer_native_currency", NativeId, origin, dest, amount, "Free"),
           Pallet_transfer_native_currency(native, tokens, origin, dest, amount))

\* The call returns to the host, which takes the events it deposited.
Return ==
    /\ last.op # "none"
    /\ last' = Idle
    /\ events' = <<>>
    /\ calls' = <<>>
    /\ pre' = [native |-> native, tokens |-> tokens]
    /\ UNCHANGED <<native, tokens>>

Next ==
    \/ BaseUnit
    \/ MinimumBalance
    \/ TotalIssuance
    \/ TotalBalance
    \/ FreeBalance
    \/ EnsureCanWithdraw
    \/ Transfer
    \/ Deposit
    \/ Withdraw
    \/ CanSlash
    \/ Slash
    \/ CanReserve
    \/ SlashReserved
    \/ ReservedBalance
    \/ Reserve
    \/ Unreserve
    \/ RepatriateReserved
    \/ DispatchTransfer
    \/ DispatchTransferNativeCurrency
    \/ Return

Spec == Init /\ [][Next]_vars

\* ------------------------------------------------- reading a finished call
\* The ledger a currency id selects.
Ledger(n, t, c) == IF c = NativeId THEN n ELSE t[c]
\* The selected ledger before and after the call in `last`.
PreL == Ledger(pre.native, pre.tokens, last.cid)
PostL == Ledger(native, tokens, last.cid)
\* No free or reserved balance of any currency differs from before the call.
BalancesUnchanged ==
    /\ native.acc = pre.native.acc
    /\ \A c \in NonNativeIds : tokens[c].acc = pre.tokens[c].acc
LedgersUnchanged == native = pre.native /\ tokens = pre.tokens

\* The native adapter's operation of the given name, called directly.
NativeDirect(op, s, who, to, amount, status) ==
    CASE op = "minimum_balance" -> Adapter_minimum_balance(s)
      [] op = "total_issuance" -> Adapter_total_issuance(s)
      [] op = "total_balance" -> Adapter_total_balance(s, who)
      [] op = "free_balance" -> Adapter_free_balance(s, who)
      [] op = "ensure_can_withdraw" -> Adapter_ensure_can_withdraw(s, who, amount)
      [] op = "transfer" -> Adapter_transfer(s, who, to, amount)
      [] op = "deposit" -> Adapter_deposit(s, who, amount)
      [] op = "withdraw" -> Adapter_withdraw(s, who, amount)
      [] op = "can_slash" -> Adapter_can_slash(s, who, amount)
      [] op = "slash" -> Adapter_slash(s, who, amount)
      [] op = "can_reserve" -> Adapter_can_reserve(s, who, amount)
      [] op = "slash_reserved" -> Adapter_slash_reserved(s, who, amount)
      [] op = "reserved_balance" -> Adapter_reserved_balance(s, who)
      [] op = "reserve" -> Adapter_reserve(s, who, amount)
      [] op = "unreserve" -> Adapter_unreserve(s, who, amount)
      [] op = "repatriate_reserved" -> Adapter_repatriate_reserved(s, who, to, amount, status)
      [] OTHER -> [ret |-> Err("NoSuchOperation"), st |-> s, calls |-> <<>>]

\* The multi-asset backend's operation of the given name, called directly
\* with currency c, whose ledger is s.
TokensDirect(op, s, c, who, to, amount, status) ==
    CASE op = "base_unit" -> [ret |-> Ok(Tok_base_unit(c)), st |-> s]
      [] op = "minimum_balance" -> [ret |-> Ok(Tok_minimum_balance(c)), st |-> s]
      [] op = "total_issuance" -> [ret |-> Ok(Tok_total_issuance(s)), st |-> s]
      [] op = "total_balance" -> [ret |-> Ok(Tok_total_balance(s, who)), st |-> s]
      [] op = "free_balance" -> [ret |-> Ok(Tok_free_balance(s, who)), st |-> s]
      [] op = "ensure_can_withdraw" ->
             [ret |-> Tok_ensure_can_withdraw(s, who, amount), st |-> s]
      [] op = "transfer" -> Tok_transfer(s, who, to, amount)
      [] op = "deposit" -> Tok_deposit(s, who, amount)
      [] op = "withdraw" -> Tok_withdraw(s, who, amount)
      [] op = "can_slash" -> [ret |-> Ok(Tok_can_slash(s, who, amount)), st |-> s]
      [] op = "slash" -> Tok_slash(s, who, amount)
      [] op = "can_reserve" -> [ret |-> Ok(Tok_can_reserve(s, who, amount)), st |-> s]
      [] op = "slash_reserved" -> Tok_slash_reserved(s, who, amount)
      [] op = "reserved_balance" -> [ret |-> Ok(Tok_reserved_balance(s, who)), st |-> s]
      [] op = "reserve" -> Tok_reserve(s, who, amount)
      [] op = "unreserve" -> Tok_unreserve(s, who, amount)
      [] op = "repatriate_reserved" -> Tok_repatriate_reserved(s, who, to, amount, status)
      [] OTHER -> [ret |-> Err("NoSuchOperation"), st |-> s]

\* What the backend selected by the call in `last` answers to the operation
\* `op` with the call's arguments, from the state before the call.
Direct(op) ==
    IF last.cid = NativeId
    THEN NativeDirect(op, pre.native, last.who, last.to, last.amount, last.status)
    ELSE TokensDirect(op, pre.tokens[last.cid], last.cid, last.who, last.to, last.amount,
                      last.status)

\* The call in `last` returned what the selected backend's operation `op`
\* returns and left that backend in the same state; the other backend was
\* neither called nor changed.
SameAsDirect(op) ==
    IF last.cid = NativeId
    THEN /\ last.ret = Direct(op).ret
         /\ native = Direct(op).st
         /\ tokens = pre.tokens
         /\ \A i \in DOMAIN calls : calls[i].backend # "Stp258Currency"
    ELSE /\ last.ret = Direct(op).ret
         /\ tokens = [pre.tokens EXCEPT ![last.cid] = Direct(op).st]
         /\ native = pre.native
         /\ \A i \in DOMAIN calls : calls[i].backend = "Stp258Currency"

RouterOps ==
    {"base_unit", "minimum_balance", "total_issuance", "total_balance", "free_balance",
     "ensure_can_withdraw", "transfer", "deposit", "withdraw", "can_slash", "slash",
     "can_reserve", "reserve", "unreserve", "reserved_balance", "slash_reserved",
     "repatriate_reserved"}

\* ------------------------------------------------------------------ claims

\* C1: when the router's transfer, deposit or withdraw is forwarded to a
\* backend and the backend returns an error, the router returns exactly that
\* error, deposits no event and leaves every free and reserved balance as it
\* was before the call.
C1_BackendErrorPropagated ==
    (last.op \in {"transfer", "deposit", "withdraw"} /\ calls # <<>> /\ ~Direct(last.op).ret.ok)
        => /\ last.ret = Direct(last.op).ret
           /\ events = <<>>
           /\ BalancesUnchanged

\* C1 witness: a native transfer the router forwarded and the backend refused.
C1_Witness ==
    /\ last.op = "transfer"
    /\ last.cid = NativeId
    /\ calls # <<>>
    /\ ~last.ret.ok
    /\ native.issuance > 0

\* C2: a router transfer with amount 0 or from = to, and a router deposit or
\* withdraw with amount 0, returns success, calls no backend, changes no free
\* balance, reserved balance or total issuance, and deposits no event.
C2_NoOpShortCircuit ==
    (\/ (last.op = "transfer" /\ (last.amount = 0 \/ last.who = last.to))
     \/ (last.op \in {"deposit", "withdraw"} /\ last.amount = 0))
        => /\ last.ret = OkUnit
           /\ calls = <<>>
           /\ LedgersUnchanged
           /\ events = <<>>

\* C2 witness: a self-transfer of more than the sender's free balance.
C2_Witness ==
    /\ last.op = "transfer"
    /\ last.who = last.to
    /\ last.amount > PreL.acc[last.who].free
    /\ PreL.acc[last.who].free > 0
    /\ last.ret.ok

\* C3 as claimed: every router operation, base_unit included, answers as the
\* selected backend's operation of the same name and leaves the same state;
\* the backend not selected is neither called nor changed.
C3_RoutingEquivalence_AllOps ==
    last.op \in RouterOps => SameAsDirect(last.op)

\* C3 as amended: the same for every router operation but base_unit on the
\* native id, which answers as the native adapter's minimum_balance (the
\* adapter has no base_unit).
C3_RoutingEquivalence ==
    last.op \in RouterOps =>
        IF last.op = "base_unit" /\ last.cid = NativeId
        THEN SameAsDirect("minimum_balance")
        ELSE SameAsDirect(last.op)

\* C3 witness: a routed non-native transfer changed the multi-asset ledger
\* while the native ledger held funds.
C3_Witness ==
    /\ last.op = "transfer"
    /\ last.cid # NativeId
    /\ last.ret.ok
    /\ tokens # pre.tokens
    /\ native.issuance > 0

\* What slash may take from (the whole balance) and slash_reserved (the
\* reserved balance), before the call.
Available ==
    IF last.op = "slash" THEN Total(PreL, last.who) ELSE PreL.acc[last.who].reserved
\* By how much the account's balance fell over the call.
Removed == Total(PreL, last.who) - Total(PostL, last.who)
\* The native account of the call was removed for holding less than the
\* minimum balance once `taken` had been taken from it.
Reaped(taken) ==
    /\ last.cid = NativeId
    /\ Total(PostL, last.who) = 0
    /\ Total(PreL, last.who) - taken < ExistentialDeposit

\* C4 as claimed: slash and slash_reserved never return an error, the
\* returned shortfall is the requested amount minus what the account lost,
\* and what it lost is at most what was available.
C4_SlashShortfall_Claimed ==
    last.op \in {"slash", "slash_reserved"}
        => /\ last.ret.ok
           /\ last.ret.val = last.amount - Removed
           /\ Removed <= Available

\* C4 as amended: slash and slash_reserved never return an error; the
\* returned shortfall is the requested amount minus the amount slashed, the
\* amount slashed is at most what was available and is all of it when the
\* shortfall is not zero; the account's balance falls by exactly the amount
\* slashed, unless it is a native account left below the minimum balance,
\* which is removed with all it held.
C4_SlashShortfall ==
    last.op \in {"slash", "slash_reserved"}
        => /\ last.ret.ok
           /\ last.ret.val \in 0 .. last.amount
           /\ LET slashed == last.amount - last.ret.val
              IN /\ slashed <= Available
                 /\ last.ret.val > 0 => slashed = Available
                 /\ Removed = slashed \/ Reaped(slashed)
                 /\ PostL.issuance = PreL.issuance - Removed

\* C4 witness: a native slash that fell short of the requested amount.
C4_Witness ==
    /\ last.op = "slash"
    /\ last.cid = NativeId
    /\ last.ret.val > 0
    /\ Removed > 0

\* C5 as claimed: repatriate_reserved(asset, A, B, v, Free) with A.reserved
\* >= v returns Ok(0), takes exactly v from A.reserved and adds exactly v to
\* B.free; with A.reserved = r < v it returns Ok(v - r), empties A.reserved
\* and adds exactly r to B.free.
C5_Repatriate_Claimed ==
    (last.op = "repatriate_reserved" /\ last.status = "Free")
        => LET r == PreL.acc[last.who].reserved
               v == last.amount
           IN IF r >= v
              THEN /\ last.ret = Ok(0)
                   /\ PostL.acc[last.who].reserved = r - v
                   /\ PostL.acc[last.to].free = PreL.acc[last.to].free + v
              ELSE /\ last.ret = Ok(v - r)
                   /\ PostL.acc[last.who].reserved = 0
                   /\ PostL.acc[last.to].free = PreL.acc[last.to].free + r

\* The native backend refuses to repatriate to an account that does not exist.
C5_DeadBeneficiary ==
    /\ last.cid = NativeId
    /\ last.amount > 0
    /\ last.who # last.to
    /\ Total(PreL, last.to) = 0

\* C5 as amended: repatriate_reserved(asset, A, B, v, Free) fails only for
\* the native asset with v > 0, A # B and B not existing, and then changes
\* nothing; otherwise, with m the smaller of v and A.reserved, it returns
\* Ok(v - m), adds exactly m to B.free and takes exactly m from A.reserved,
\* unless A is a native account left below the minimum balance, which is
\* removed. Insufficient reserved funds never produce an error.
C5_Repatriate ==
    (last.op = "repatriate_reserved" /\ last.status = "Free")
        => LET m == Min(PreL.acc[last.who].reserved, last.amount)
           IN IF C5_DeadBeneficiary
              THEN ~last.ret.ok /\ LedgersUnchanged
              ELSE /\ last.ret = Ok(last.amount - m)
                   /\ PostL.acc[last.to].free = PreL.acc[last.to].free + m
                   /\ \/ PostL.acc[last.who].reserved = PreL.acc[last.who].reserved - m
                      \/ Reaped(m)

\* C5 witness: a native repatriation between two accounts that moved less
\* than was asked for.
C5_Witness ==
    /\ last.op = "repatriate_reserved"
    /\ last.status = "Free"
    /\ last.cid = NativeId
    /\ last.who # last.to
    /\ last.ret.ok
    /\ last.ret.val > 0
    /\ PostL.acc[last.to].free > PreL.acc[last.to].free

\* C6: reserve(asset, who, v) with v at most who's free balance succeeds, and
\* an unreserve(asset, who, v) following it returns shortfall 0 and leaves
\* who's free and reserved balance as they were before the reserve.
C6_ReserveUnreserve ==
    (last.op = "reserve" /\ last.amount <= PreL.acc[last.who].free)
        => /\ last.ret.ok
           /\ LET u == Router_unreserve(native, tokens, last.cid, last.who, last.amount)
              IN /\ u.ret = Ok(0)
                 /\ Ledger(u.native, u.tokens, last.cid).acc[last.who] = PreL.acc[last.who]

\* C6 witness: a native reserve of a non-zero amount, of an account that
\* already held a reserve, succeeded.
C6_Witness ==
    /\ last.op = "reserve"
    /\ last.cid = NativeId
    /\ last.amount > 0
    /\ last.ret.ok
    /\ PreL.acc[last.who].reserved > 0
    /\ PostL.acc[last.who].reserved = PreL.acc[last.who].reserved + last.amount

\* C7: after any sequence of router operations, for every currency and every
\* account the router's total_balance is its free_balance plus its
\* reserved_balance.
C7_TotalIsFreePlusReserved ==
    \A c \in CurrencyIds, who \in Accounts :
        Router_total_balance(native, tokens, c, who).ret.val
            = Router_free_balance(native, tokens, c, who).ret.val
              + Router_reserved_balance(native, tokens, c, who).ret.val

\* C7 witness: after a failed call, an account holds a free and a reserved
\* balance in the native currency while the other currency holds funds too.
C7_Witness ==
    /\ last.op \in {"transfer", "withdraw", "reserve"}
    /\ ~last.ret.ok
    /\ \E who \in Accounts : native.acc[who].free > 0 /\ native.acc[who].reserved > 0
    /\ \E c \in NonNativeIds : tokens[c].issuance > 0

\* A native withdraw of more than the free balance.
C8_Overdraw ==
    /\ last.op = "withdraw"
    /\ last.cid = NativeId
    /\ last.amount > PreL.acc[last.who].free

\* C8 as claimed: a native withdraw of more than who's free balance fails
\* with BalanceTooLow, the error ensure_can_withdraw returns for the same
\* arguments, leaves who's free balance unchanged and deposits no event.
C8_WithdrawBalanceTooLow_Claimed ==
    C8_Overdraw
        => /\ last.ret = Err("BalanceTooLow")
           /\ last.ret = Router_ensure_can_withdraw(pre.native, pre.tokens, NativeId,
                                                    last.who, last.amount).ret
           /\ PostL.acc[last.who].free = PreL.acc[last.who].free
           /\ events = <<>>

\* C8 as amended: a native withdraw of more than who's free balance fails
\* with the error the native primitive's withdraw returns, which is not
\* BalanceTooLow; the adapter does not run ensure_can_withdraw; who's free
\* balance is unchanged and no event is deposited.
C8_WithdrawBackendError ==
    C8_Overdraw
        => /\ ~last.ret.ok
           /\ last.ret = Cur_withdraw(pre.native, last.who, last.amount).ret
           /\ last.ret.err # "BalanceTooLow"
           /\ calls = <<Called("Stp258Native", "withdraw"), Called("Currency", "withdraw")>>
           /\ PostL.acc[last.who].free = PreL.acc[last.who].free
           /\ events = <<>>

\* C8 witness: a native withdraw of more than a non-zero free balance failed.
C8_Witness ==
    /\ C8_Overdraw
    /\ PreL.acc[last.who].free > 0
    /\ ~last.ret.ok

\* C9: for every signed caller, destination and amount, the dispatchable
\* transfer_native_currency(dest, amount) returns what the dispatchable
\* transfer(dest, native id, amount) returns, leaves the same balances and
\* deposits the same events.
C9_NativeTransferEquivalent ==
    (last.op = "call_transfer_native_currency" /\ last.who \in Accounts)
        => LET o == Pallet_transfer(pre.native, pre.tokens, last.who, last.to, NativeId,
                                    last.amount)
           IN /\ last.ret = o.ret
              /\ native = o.native
              /\ tokens = o.tokens
              /\ events = o.events

\* C10: whenever a router deposit with amount > 0 returns success and
\* deposits Deposited(asset, who, amount), who's free balance of that asset
\* and the asset's total issuance are each exactly amount higher than before.
C10_DepositedMeansCredited ==
    (/\ last.op = "deposit"
     /\ last.amount > 0
     /\ last.ret.ok
     /\ events = <<Deposited(last.cid, last.who, last.amount)>>)
        => /\ PostL.acc[last.who].free = PreL.acc[last.who].free + last.amount
           /\ PostL.issuance = PreL.issuance + last.amount

====
